---- MODULE Spec2Model ----
(***************************************************************************)
(* Model of the three stages of the document pipeline.                     *)
(*                                                                         *)
(* good_doc_to_xml.py: the table cell-merge reconstruction of              *)
(* docx_to_custom_xml.process_table (grid scan with a processed-cell set,  *)
(* look-ahead for vertical merge runs, recursion into nested tables) and   *)
(* the folder loop of process_all_docx_in_folder around it.                *)
(* A table is a sequence of rows, a row the sequence row.cells, indexed    *)
(* from 0 as in the code (r, c) and stored from 1 (r+1, c+1).  A cell      *)
(* carries what the code reads of it: whether its w:tcPr element exists,   *)
(* the w:val of its w:gridSpan and of its w:vMerge, and its nested tables. *)
(*                                                                         *)
(* xml_to_propermd.py: the section tree that xml_to_md builds from the     *)
(* children of the XML root and the lines it writes from the tree.         *)
(*                                                                         *)
(* md_json.py: the main loop of process_markdown_file, which files tables  *)
(* and paragraphs under parts, sections and sub-sections.                  *)
(***************************************************************************)
EXTENDS Integers, Sequences, FiniteSets, TLC

\* ------------------------------------------------------------------------
\* Bounds of the model
\* ------------------------------------------------------------------------
\* Cells of a table whose cells carry plain merge directives.
MaxCells == 4
\* Cells of a table that mixes in combined and malformed directives and
\* nested tables, and of a table that has rows without cells.
MaxMixed == 2
\* Rows of a table that has rows without cells.
MaxRows == 2
\* Cells the scan may append to one row element (a gridSpan of 0 never
\* advances the scan).
MaxEmit == 5
\* Files of the input folder.
MaxFiles == 2

\* ------------------------------------------------------------------------
\* Directive values
\* ------------------------------------------------------------------------
\* The element is not there (tcPr.find(...) is None).
Absent == "absent"
\* The element is there without a w:val attribute (.get(qn('w:val')) is None).
NoVal == "None"

\* int(s) of the w:val strings the inputs use.
IntLiterals ==
    ("-2" :> -2) @@ ("-1" :> -1) @@
    ("0" :> 0) @@ ("1" :> 1) @@ ("2" :> 2) @@ ("3" :> 3) @@ ("4" :> 4) @@
    ("5" :> 5) @@ ("6" :> 6) @@ ("7" :> 7) @@ ("8" :> 8) @@ ("9" :> 9)

\* str(n) as used for the rowspan / colspan attributes.
PyStr(n) == CHOOSE s \in DOMAIN IntLiterals : IntLiterals[s] = n

\* What int(gridSpan_el.get(qn('w:val'))) raises, "" when it returns.
IntError(v) ==
    IF v = NoVal THEN "TypeError: int() argument must be a string"
    ELSE IF v \notin DOMAIN IntLiterals
         THEN "ValueError: invalid literal for int()"
    ELSE ""

\* Mutant of ColspanOf: the gridSpan value is ignored.
ColspanOf_Ignored(cell) == 1

\* colspan = int(gridSpan_el.get(qn('w:val'))) if gridSpan_el is not None else 1
ColspanOf(cell) ==
    IF cell.gridSpan = Absent THEN 1 ELSE IntLiterals[cell.gridSpan]

\* The error of line 60 for this cell, "" when there is none.
ColspanError(cell) ==
    IF cell.gridSpan = Absent THEN "" ELSE IntError(cell.gridSpan)

\* vMerge_el is not None and vMerge_el.get(qn('w:val')) == 'restart'
IsStart(cell) == cell.vMerge = "restart"

\* next_vMerge_el is not None and next_vMerge_el.get(qn('w:val')) is None
IsContinuation(cell) == cell.vMerge = NoVal

\* cell._tc.get_or_add_tcPr(): the element is created when it is missing.
GetOrAddTcPr(cell) == [cell EXCEPT !.tcPr = TRUE]

\* What max() of line 37 raises for a table without rows.
MaxOfNothing == "ValueError: max() arg is an empty sequence"

\* ------------------------------------------------------------------------
\* Grid access
\* ------------------------------------------------------------------------
\* len(table.rows)
RowCount(tbl) == Len(tbl)

\* seq[i] of Python: does it raise IndexError?
PyInRange(n, i) == (i >= 0 /\ i < n) \/ (i < 0 /\ -i <= n)

\* seq[i] of Python as a position from 1.
PyPos(n, i) == IF i >= 0 THEN i + 1 ELSE n + i + 1

\* row.cells[c] and table.cell(i, c) do not raise IndexError.
HasCell(tbl, r, c) == PyInRange(Len(tbl[r + 1]), c)

\* row.cells[c] / table.cell(i, c)
CellAt(tbl, r, c) == tbl[r + 1][PyPos(Len(tbl[r + 1]), c)]

RECURSIVE MaxLen(_)
\* max(len(row.cells) for row in table.rows), for a table with rows.
MaxLen(tbl) ==
    IF Len(tbl) = 1 THEN Len(tbl[1])
    ELSE LET m == MaxLen(Tail(tbl))
         IN IF Len(tbl[1]) > m THEN Len(tbl[1]) ELSE m

\* Mutant of RowspanFrom: a continuation cell is counted whatever follows,
\* the look-ahead does not stop at the first cell that is no continuation.
RECURSIVE RowspanFrom_NoBreak(_, _, _, _)
RowspanFrom_NoBreak(tbl, i, c, rowspan) ==
    IF i >= RowCount(tbl) THEN rowspan
    ELSE IF ~HasCell(tbl, i, c) THEN rowspan
    ELSE RowspanFrom_NoBreak(tbl, i + 1, c,
            IF IsContinuation(CellAt(tbl, i, c)) THEN rowspan + 1 ELSE rowspan)

RECURSIVE RowspanFrom(_, _, _, _)
\* for i in range(r + 1, len(table.rows)): ... rowspan += 1 / break
RowspanFrom(tbl, i, c, rowspan) ==
    IF i >= RowCount(tbl) THEN rowspan
    ELSE IF ~HasCell(tbl, i, c) THEN rowspan
    ELSE IF IsContinuation(CellAt(tbl, i, c))
         THEN RowspanFrom(tbl, i + 1, c, rowspan + 1)
         ELSE rowspan

\* Mutant of RowspanOf: a continuation cell starts a run like a 'restart'.
RowspanOf_AnyMerge(tbl, r, c) ==
    IF CellAt(tbl, r, c).vMerge \in {"restart", NoVal}
    THEN RowspanFrom(tbl, r + 1, c, 1) ELSE 1

\* rowspan = 1; if the cell restarts a vertical merge, the look-ahead.
RowspanOf(tbl, r, c) ==
    IF IsStart(CellAt(tbl, r, c)) THEN RowspanFrom(tbl, r + 1, c, 1) ELSE 1

\* The rows whose cell at column c the look-ahead fetched (table.cell(i, c)
\* returned), the row that ended the run included.
LookedAt(tbl, r, c) ==
    IF IsStart(CellAt(tbl, r, c))
    THEN {i \in (r + 1)..(r + RowspanOf(tbl, r, c)) :
              i < RowCount(tbl) /\ HasCell(tbl, i, c)}
    ELSE {}

\* Mutant of AfterRead: the continuation cells a run absorbed are marked in
\* the table itself, their vMerge directive is removed.
AfterRead_Consume(tbl, r, c) ==
    LET pos == PyPos(Len(tbl[r + 1]), c)
        looked == LookedAt(tbl, r, c)
    IN [i \in 1..Len(tbl) |->
          [j \in 1..Len(tbl[i]) |->
              IF i = r + 1 /\ j = pos THEN GetOrAddTcPr(tbl[i][j])
              ELSE IF i - 1 \in looked /\ j = PyPos(Len(tbl[i]), c)
                   THEN [GetOrAddTcPr(tbl[i][j]) EXCEPT !.vMerge =
                            IF @ = NoVal THEN Absent ELSE @]
                   ELSE tbl[i][j]]]

\* The table after the scan read the cell at (r, c): get_or_add_tcPr() ran
\* on that cell and on every cell the look-ahead fetched.
AfterRead(tbl, r, c) ==
    LET pos == PyPos(Len(tbl[r + 1]), c)
        looked == LookedAt(tbl, r, c)
    IN [i \in 1..Len(tbl) |->
          [j \in 1..Len(tbl[i]) |->
              IF (i = r + 1 /\ j = pos)
                 \/ (i - 1 \in looked /\ j = PyPos(Len(tbl[i]), c))
              THEN GetOrAddTcPr(tbl[i][j])
              ELSE tbl[i][j]]]

\* for i in range(r, r + rowspan): for j in range(c, c + colspan): (i, j)
SpanCells(r, c, rowspan, colspan) ==
    {<<i, j>> : i \in r..(r + rowspan - 1), j \in c..(c + colspan - 1)}

\* cell_el.set(name, str(n)) happens only if n > 1.
SpanAttr(n) == IF n > 1 THEN PyStr(n) ELSE "unset"

\* ------------------------------------------------------------------------
\* Inputs
\* ------------------------------------------------------------------------
\* A raw cell as the document holds it; nested holds the cell's nested tables.
RawCell(tcPr, gridSpan, vMerge, nested) ==
    [tcPr |-> tcPr, gridSpan |-> gridSpan, vMerge |-> vMerge, nested |-> nested]

Plain == RawCell(FALSE, Absent, Absent, <<>>)
Start == RawCell(TRUE, Absent, "restart", <<>>)
Continuation == RawCell(TRUE, Absent, NoVal, <<>>)
Wide == RawCell(TRUE, "2", Absent, <<>>)

\* Nested tables: a vertical run, a horizontal span, a table without rows.
NestedRun == << <<Start>>, <<Continuation>> >>
NestedWide == << <<Wide>> >>
NestedEmpty == << >>

\* Cells with plain merge directives.
SimpleKinds == {Plain, Start, Continuation, Wide}

\* Cells with combined directives, malformed directive values, nested tables.
MixedKinds ==
    SimpleKinds \cup
    { RawCell(TRUE, "2", "restart", <<>>),
      RawCell(TRUE, "2", NoVal, <<>>),
      RawCell(TRUE, Absent, "other", <<>>),
      RawCell(TRUE, "x", Absent, <<>>),
      RawCell(TRUE, NoVal, Absent, <<>>),
      RawCell(TRUE, "0", Absent, <<>>),
      RawCell(TRUE, Absent, "restart", <<NestedRun>>),
      RawCell(TRUE, "2", Absent, <<NestedRun, NestedWide>>),
      RawCell(FALSE, Absent, Absent, <<NestedEmpty>>) }

RECURSIVE Sum(_)
Sum(s) == IF s = <<>> THEN 0 ELSE Head(s) + Sum(Tail(s))

\* Row lengths of the tables of at most that many cells, a cell in each row.
Shapes(cells) ==
    {s \in UNION {[1..n -> 1..cells] : n \in 1..cells} : Sum(s) <= cells}

\* Row lengths with rows that have no cells, and the table without rows.
RaggedShapes ==
    {s \in UNION {[1..n -> 0..MaxMixed] : n \in 0..MaxRows} :
        Sum(s) <= MaxMixed /\ (s = <<>> \/ \E i \in 1..Len(s) : s[i] = 0)}

RECURSIVE TablesOf(_, _)
\* The tables of the given row lengths with cells of the given kinds.
TablesOf(shape, kinds) ==
    IF shape = <<>> THEN {<<>>}
    ELSE {<<row>> \o rest : row \in [1..Head(shape) -> kinds],
                            rest \in TablesOf(Tail(shape), kinds)}

InputTables ==
    UNION {TablesOf(s, SimpleKinds) : s \in Shapes(MaxCells)}
    \cup UNION {TablesOf(s, MixedKinds) : s \in Shapes(MaxMixed)}
    \cup UNION {TablesOf(s, SimpleKinds) : s \in RaggedShapes}

\* Cells whose gridSpan value is a negative integer.
NegativeKinds ==
    { RawCell(TRUE, "-1", Absent, <<>>),
      RawCell(TRUE, "-2", Absent, <<>>),
      RawCell(TRUE, "-1", "restart", <<>>) }

\* Cells whose gridSpan value is any integer, or is absent or malformed.
AnySpanKinds == MixedKinds \cup NegativeKinds

AnySpanTables == UNION {TablesOf(s, AnySpanKinds) : s \in Shapes(MaxMixed)}

\* The top-level table is <<>>; the k-th nested table of its cell (r, c) is
\* <<r, c, k>>.
TopTable == <<>>

\* The cell as stored: cell.tables names the nested tables.
LinkCell(raw, r, c) ==
    [tcPr |-> raw.tcPr, gridSpan |-> raw.gridSpan, vMerge |-> raw.vMerge,
     tables |-> [k \in 1..Len(raw.nested) |-> <<r, c, k>>]]

LinkTable(rawTable) ==
    [i \in 1..Len(rawTable) |->
        [j \in 1..Len(rawTable[i]) |-> LinkCell(rawTable[i][j], i - 1, j - 1)]]

TableIds(top) ==
    {TopTable} \cup
    UNION {UNION {{<<i - 1, j - 1, k>> : k \in 1..Len(top[i][j].nested)}
                  : j \in 1..Len(top[i])} : i \in 1..Len(top)}

\* The tables of a document whose block is the table top.
Document(top) ==
    [id \in TableIds(top) |->
        IF id = TopTable THEN LinkTable(top)
        ELSE LinkTable(top[id[1] + 1][id[2] + 1].nested[id[3]])]

\* ------------------------------------------------------------------------
\* State
\* ------------------------------------------------------------------------
VARIABLES
    tables,           \* the tables of the document, by name
    before,           \* the tables as they were when the document was opened
    pc,               \* "call", "run", "done", "raised"
    err,              \* the exception that left process_table, "" if none
    stack,            \* the invocations of process_table, innermost last
    processed_cells,  \* the processed_cells set of each invocation
    root,             \* the elements appended to the document root
    files,            \* os.listdir(input_folder), in the order it lists them
    fi,               \* files the folder loop has taken
    bi,               \* body blocks of the open document already handled
    bpc,              \* the folder loop: "single" (no loop, one table),
                      \* "list", "open", "blocks", "finished", "aborted"
    outcome           \* what became of each file, "none" while untouched

\* xml_to_md of xml_to_propermd.py
VARIABLES
    xml_root,         \* the children of the root of the parsed XML, in order
    ei,               \* elements the loop of line 187 has handled
    sections,         \* the Section objects in creation order, root_section
                      \* first
    section_stack,    \* section_stack, as positions in sections
    first_heading_encountered,
    md_lines,         \* md_lines
    mpc               \* "idle", "parse", "loop", "write", "written",
                      \* "write failed", "parse error"

\* process_markdown_file of md_json.py
VARIABLES
    lines,            \* f.readlines()
    li,               \* i of the main loop
    parts,            \* json_data["parts"]
    current_part,     \* 0 for None, else the position of the part in parts
    current_section,  \* 0 for None, else the position of the section in
                      \* the sections of the current part
    current_sub_section, \* 0 for None, else the position of the sub-section
                      \* in the sub_sections of the current section
    items,            \* the table_item / content_item objects built so far
    jpc               \* "idle", "loop", "returned"

tvars == <<tables, before, pc, err, stack, processed_cells>>
bvars == <<files, fi, bi, bpc, outcome>>
xvars == <<tables, before, pc, err, stack, processed_cells, root,
           files, fi, bi, bpc, outcome>>
mvars == <<xml_root, ei, sections, section_stack, first_heading_encountered,
           md_lines, mpc>>
jvars == <<lines, li, parts, current_part, current_section,
           current_sub_section, items, jpc>>
dvars == <<mvars, jvars>>
vars == <<tables, before, pc, err, stack, processed_cells, root,
          files, fi, bi, bpc, outcome,
          xml_root, ei, sections, section_stack, first_heading_encountered,
          md_lines, mpc,
          lines, li, parts, current_part, current_section,
          current_sub_section, items, jpc>>

\* xml_to_md has not been called.
MdIdle ==
    /\ xml_root = <<>>
    /\ ei = 0
    /\ sections = <<>>
    /\ section_stack = <<>>
    /\ first_heading_encountered = FALSE
    /\ md_lines = <<>>
    /\ mpc = "idle"

\* process_markdown_file has not been called.
JsonIdle ==
    /\ lines = <<>>
    /\ li = 0
    /\ parts = <<>>
    /\ current_part = 0
    /\ current_section = 0
    /\ current_sub_section = 0
    /\ items = <<>>
    /\ jpc = "idle"

Depth == Len(stack)
Top == stack[Depth]
TopTbl == tables[Top.table]

\* Mutant of ProcessedScope: one set for all invocations (the set created
\* outside process_table).
ProcessedScope_Shared(depth) == 1

\* processed_cells is a local of process_table: one per invocation.
ProcessedScope(depth) == depth

Processed == processed_cells[ProcessedScope(Depth)]

\* The invocation's locals when the scan of the first row starts (lines
\* 32-42); only a table with rows gets that far.  seen is the history of
\* the scan of the current row: the pairs (c, processed_cells) with which an
\* iteration of the while loop of line 43 began.
NewFrame(id) ==
    [table |-> id, n_cols |-> MaxLen(tables[id]), r |-> 0, c |-> 0,
     loc |-> "scan", colspan |-> 0, k |-> 0, table_el |-> << <<>> >>,
     seen |-> {}]

\* processed_cells = set() of an invocation at the given depth.
NewProcessed(depth) ==
    [IF depth > Len(processed_cells) THEN Append(processed_cells, {})
     ELSE processed_cells EXCEPT ![ProcessedScope(depth)] = {}]

\* Mutant of NextRow: the next row gets no row element of its own, its
\* cells go to the element of the row before.
NextRow_NoElement(f) ==
    IF f.r + 1 < RowCount(tables[f.table])
    THEN [f EXCEPT !.r = @ + 1, !.c = 0, !.loc = "scan", !.seen = {}]
    ELSE [f EXCEPT !.r = @ + 1, !.loc = "end", !.seen = {}]

\* The invocation when the scan of its row r is over: the for loop takes
\* the next row (row_el = ..., c = 0, lines 39-42) or is exhausted.
NextRow(f) ==
    IF f.r + 1 < RowCount(tables[f.table])
    THEN [f EXCEPT !.r = @ + 1, !.c = 0, !.loc = "scan", !.seen = {},
                   !.table_el = Append(@, <<>>)]
    ELSE [f EXCEPT !.r = @ + 1, !.loc = "end", !.seen = {}]

Init ==
    /\ \E top \in InputTables : tables = Document(top)
    /\ before = tables
    /\ pc = "call"
    /\ err = ""
    /\ stack = <<>>
    /\ processed_cells = <<>>
    /\ root = <<>>
    /\ files = <<>>
    /\ fi = 0
    /\ bi = 0
    /\ bpc = "single"
    /\ outcome = <<>>
    /\ MdIdle
    /\ JsonIdle

\* process_table(root, table) is called for a table block (line 137); a
\* table without rows raises ValueError at line 37.
ProcessTable ==
    /\ pc = "call"
    /\ IF RowCount(tables[TopTable]) = 0
       THEN /\ pc' = "raised"
            /\ err' = MaxOfNothing
            /\ UNCHANGED <<stack, processed_cells>>
       ELSE /\ pc' = "run"
            /\ stack' = <<NewFrame(TopTable)>>
            /\ processed_cells' = NewProcessed(1)
            /\ UNCHANGED err
    /\ UNCHANGED <<tables, before, root, bvars>>
    /\ UNCHANGED dvars

\* while c < n_cols is false: the scan of the row is over (line 43)
RowEnd ==
    /\ pc = "run"
    /\ Top.loc = "scan"
    /\ ~(Top.c < Top.n_cols)
    /\ stack' = [stack EXCEPT ![Depth] = NextRow(Top)]
    /\ UNCHANGED <<tables, before, pc, err, processed_cells, root, bvars>>
    /\ UNCHANGED dvars

\* if (r, c) in processed_cells: c += 1; continue (lines 44-46)
SkipProcessed ==
    /\ pc = "run"
    /\ Top.loc = "scan"
    /\ Top.c < Top.n_cols
    /\ <<Top.r, Top.c>> \in Processed
    /\ stack' = [stack EXCEPT ![Depth].c = @ + 1,
                              ![Depth].seen = @ \cup {<<Top.c, Processed>>}]
    /\ UNCHANGED <<tables, before, pc, err, processed_cells, root, bvars>>
    /\ UNCHANGED dvars

\* except IndexError: break (lines 48-52)
RowBreak ==
    /\ pc = "run"
    /\ Top.loc = "scan"
    /\ Top.c < Top.n_cols
    /\ <<Top.r, Top.c>> \notin Processed
    /\ ~HasCell(TopTbl, Top.r, Top.c)
    /\ stack' = [stack EXCEPT ![Depth] = NextRow(Top)]
    /\ UNCHANGED <<tables, before, pc, err, processed_cells, root, bvars>>
    /\ UNCHANGED dvars

\* The cell element of lines 86-90, with the position and the spans that
\* line 95 logs.
CellEl(r, c, rowspan, colspan) ==
    [r |-> r, c |-> c, rowspan |-> rowspan, colspan |-> colspan,
     rowspan_attr |-> SpanAttr(rowspan), colspan_attr |-> SpanAttr(colspan),
     tables |-> <<>>]

\* The cell at (r, c) is read, its spans computed, its rectangle marked and
\* its element appended to the row (lines 55-95); int() of a malformed
\* gridSpan value raises after get_or_add_tcPr() ran on the cell.  A cell
\* without nested tables is done with c += colspan (line 100); otherwise the
\* loop over cell.tables is next.
ReadCell ==
    /\ pc = "run"
    /\ Top.loc = "scan"
    /\ Top.c < Top.n_cols
    /\ <<Top.r, Top.c>> \notin Processed
    /\ HasCell(TopTbl, Top.r, Top.c)
    /\ Len(Top.table_el[Len(Top.table_el)]) < MaxEmit
    /\ LET r == Top.r
           c == Top.c
           cell == CellAt(TopTbl, r, c)
           pos == PyPos(Len(TopTbl[r + 1]), c)
       IN IF ColspanError(cell) # ""
          THEN /\ pc' = "raised"
               /\ err' = ColspanError(cell)
               /\ tables' = [tables EXCEPT ![Top.table][r + 1][pos] =
                                               GetOrAddTcPr(cell)]
               /\ UNCHANGED <<stack, processed_cells>>
          ELSE LET colspan == ColspanOf(cell)
                   rowspan == RowspanOf(TopTbl, r, c)
               IN /\ tables' = [tables EXCEPT ![Top.table] =
                                                 AfterRead(TopTbl, r, c)]
                  /\ processed_cells' =
                        [processed_cells EXCEPT ![ProcessedScope(Depth)] =
                            @ \cup SpanCells(r, c, rowspan, colspan)]
                  /\ stack' =
                        [stack EXCEPT
                            ![Depth].table_el[Len(Top.table_el)] =
                                Append(@, CellEl(r, c, rowspan, colspan)),
                            ![Depth].colspan = colspan,
                            ![Depth].k = 1,
                            ![Depth].seen = @ \cup {<<c, Processed>>},
                            ![Depth].c =
                                IF cell.tables = <<>> THEN c + colspan ELSE c,
                            ![Depth].loc =
                                IF cell.tables = <<>> THEN "scan"
                                ELSE "nested"]
                  /\ UNCHANGED <<pc, err>>
    /\ UNCHANGED <<before, root, bvars>>
    /\ UNCHANGED dvars

\* for nested_table in cell.tables: process_table(cell_el, nested_table)
\* (lines 96-98); a nested table without rows raises ValueError at line 37.
NestedCall ==
    /\ pc = "run"
    /\ Top.loc = "nested"
    /\ LET cell == CellAt(TopTbl, Top.r, Top.c)
       IN /\ Top.k <= Len(cell.tables)
          /\ IF RowCount(tables[cell.tables[Top.k]]) = 0
             THEN /\ pc' = "raised"
                  /\ err' = MaxOfNothing
                  /\ UNCHANGED <<stack, processed_cells>>
             ELSE /\ stack' = Append(stack, NewFrame(cell.tables[Top.k]))
                  /\ processed_cells' = NewProcessed(Depth + 1)
                  /\ UNCHANGED <<pc, err>>
    /\ UNCHANGED <<tables, before, root, bvars>>
    /\ UNCHANGED dvars

\* The nested invocation returns: its table element is a child of the
\* parent's cell element; the parent goes on with the cell's next nested
\* table or, after the last one, with c += colspan (line 100).
Return ==
    /\ pc = "run"
    /\ Depth > 1
    /\ Top.loc = "end"
    /\ LET parent == stack[Depth - 1]
           row == Len(parent.table_el)
           col == Len(parent.table_el[row])
           last == parent.k >=
                     Len(CellAt(tables[parent.table], parent.r, parent.c).tables)
       IN stack' = [SubSeq(stack, 1, Depth - 1) EXCEPT
                       ![Depth - 1].table_el[row][col].tables =
                           Append(@, Top.table_el),
                       ![Depth - 1].k = @ + 1,
                       ![Depth - 1].c =
                           IF last THEN @ + parent.colspan ELSE @,
                       ![Depth - 1].loc = IF last THEN "scan" ELSE "nested"]
    /\ processed_cells' = SubSeq(processed_cells, 1, Depth - 1)
    /\ UNCHANGED <<tables, before, pc, err, root, bvars>>
    /\ UNCHANGED dvars

\* etree.SubElement(parent_el, "table") with its rows (line 32).
TableEl(rows) == [tag |-> "table", rows |-> rows]

\* The top-level invocation returns: its table element is a child of root.
Finish ==
    /\ pc = "run"
    /\ Depth = 1
    /\ Top.loc = "end"
    /\ pc' = "done"
    /\ root' = Append(root, TableEl(Top.table_el))
    /\ stack' = <<>>
    /\ processed_cells' = <<>>
    /\ UNCHANGED <<tables, before, err, bvars>>
    /\ UNCHANGED dvars

\* process_table runs again on the same table object, as the first pass
\* left it; the element of each pass is kept for comparison.
Rerun ==
    /\ bpc = "single"
    /\ pc = "done"
    /\ Len(root) = 1
    /\ pc' = "call"
    /\ UNCHANGED <<tables, before, err, stack, processed_cells, root, bvars>>
    /\ UNCHANGED dvars

Next ==
    \/ ProcessTable
    \/ RowEnd
    \/ SkipProcessed
    \/ RowBreak
    \/ ReadCell
    \/ NestedCall
    \/ Return
    \/ Finish
    \/ Rerun

Spec == Init /\ [][Next]_vars

\* process_table is called on a table whose gridSpan values are any integer.
InitAnySpan ==
    /\ \E top \in AnySpanTables : tables = Document(top)
    /\ before = tables
    /\ pc = "call"
    /\ err = ""
    /\ stack = <<>>
    /\ processed_cells = <<>>
    /\ root = <<>>
    /\ files = <<>>
    /\ fi = 0
    /\ bi = 0
    /\ bpc = "single"
    /\ outcome = <<>>
    /\ MdIdle
    /\ JsonIdle

SpecAnySpan == InitAnySpan /\ [][Next]_vars

\* ------------------------------------------------------------------------
\* The folder loop
\* ------------------------------------------------------------------------
\* A file of the folder: whether its name ends in ".docx", whether
\* Document(docx_path) opens it, its body blocks ("p" or a table) and
\* whether tree.write succeeds.
File(docx, opens, blocks, writable) ==
    [docx |-> docx, opens |-> opens, blocks |-> blocks, writable |-> writable]

ParagraphBlock == [tag |-> "p", table |-> <<>>]
TableBlock(rawTable) == [tag |-> "tbl", table |-> rawTable]

\* A ragged table with a vertical run and a nested table.
RaggedTable ==
    << <<RawCell(TRUE, Absent, "restart", <<NestedRun>>), Plain>>,
       <<Continuation>> >>

FileKinds ==
    { File(FALSE, TRUE, <<>>, TRUE),
      File(TRUE, FALSE, <<>>, TRUE),
      File(TRUE, TRUE, <<ParagraphBlock, TableBlock(RaggedTable)>>, TRUE),
      File(TRUE, TRUE, <<TableBlock(<< <<Wide, Plain>> >>)>>, FALSE),
      File(TRUE, TRUE,
           <<TableBlock(<< <<RawCell(TRUE, "x", Absent, <<>>)>> >>)>>, TRUE),
      File(TRUE, TRUE, <<TableBlock(<< >>), ParagraphBlock>>, TRUE) }

InitBatch ==
    /\ \E n \in 0..MaxFiles : files \in [1..n -> FileKinds]
    /\ fi = 0
    /\ bi = 0
    /\ bpc = "list"
    /\ outcome = [i \in 1..Len(files) |-> "none"]
    /\ tables = Document(<<>>)
    /\ before = tables
    /\ pc = "idle"
    /\ err = ""
    /\ stack = <<>>
    /\ processed_cells = <<>>
    /\ root = <<>>
    /\ MdIdle
    /\ JsonIdle

\* for filename in os.listdir(input_folder): if filename.endswith(".docx"):
\* docx_to_custom_xml(...) (lines 159-166); other files are passed over.
TakeFile ==
    /\ bpc = "list"
    /\ fi < Len(files)
    /\ fi' = fi + 1
    /\ IF files[fi + 1].docx
       THEN /\ bpc' = "open"
            /\ UNCHANGED outcome
       ELSE /\ outcome' = [outcome EXCEPT ![fi + 1] = "not docx"]
            /\ UNCHANGED bpc
    /\ UNCHANGED <<tvars, root, files, bi>>
    /\ UNCHANGED dvars

\* doc = Document(docx_path); on an exception the error is logged and
\* docx_to_custom_xml returns (lines 19-24).
OpenDocx ==
    /\ bpc = "open"
    /\ IF files[fi].opens
       THEN /\ bpc' = "blocks"
            /\ bi' = 0
            /\ root' = <<>>
            /\ UNCHANGED outcome
       ELSE /\ bpc' = "list"
            /\ outcome' = [outcome EXCEPT ![fi] = "open failed"]
            /\ UNCHANGED <<bi, root>>
    /\ UNCHANGED <<tvars, files, fi>>
    /\ UNCHANGED dvars

\* for block in doc.element.body: a paragraph block becomes an element of
\* root (lines 105-129).
Paragraph ==
    /\ bpc = "blocks"
    /\ pc \in {"idle", "done"}
    /\ bi < Len(files[fi].blocks)
    /\ files[fi].blocks[bi + 1].tag = "p"
    /\ root' = Append(root, [tag |-> "paragraph", rows |-> <<>>])
    /\ bi' = bi + 1
    /\ UNCHANGED <<tvars, files, fi, bpc, outcome>>
    /\ UNCHANGED dvars

\* for block in doc.element.body: a table block is handed to process_table
\* (lines 131-137).
TableBlockStart ==
    /\ bpc = "blocks"
    /\ pc \in {"idle", "done"}
    /\ bi < Len(files[fi].blocks)
    /\ files[fi].blocks[bi + 1].tag = "tbl"
    /\ tables' = Document(files[fi].blocks[bi + 1].table)
    /\ before' = tables'
    /\ pc' = "call"
    /\ bi' = bi + 1
    /\ UNCHANGED <<err, stack, processed_cells, root, files, fi, bpc, outcome>>
    /\ UNCHANGED dvars

\* tree.write(...): a failure is logged (lines 141-146); docx_to_custom_xml
\* returns to the folder loop either way.
WriteXml ==
    /\ bpc = "blocks"
    /\ pc \in {"idle", "done"}
    /\ bi = Len(files[fi].blocks)
    /\ outcome' = [outcome EXCEPT ![fi] =
                      IF files[fi].writable THEN "written" ELSE "write failed"]
    /\ bpc' = "list"
    /\ pc' = "idle"
    /\ UNCHANGED <<tables, before, err, stack, processed_cells, root,
                   files, fi, bi>>
    /\ UNCHANGED dvars

\* An exception of process_table meets no handler in docx_to_custom_xml
\* (line 137) nor in process_all_docx_in_folder (line 166): it ends the
\* folder loop.
Propagate ==
    /\ bpc = "blocks"
    /\ pc = "raised"
    /\ bpc' = "aborted"
    /\ outcome' = [outcome EXCEPT ![fi] = "raised"]
    /\ UNCHANGED <<tvars, root, files, fi, bi>>
    /\ UNCHANGED dvars

\* The folder loop has taken every file.
LoopEnd ==
    /\ bpc = "list"
    /\ fi = Len(files)
    /\ bpc' = "finished"
    /\ UNCHANGED <<tvars, root, files, fi, bi, outcome>>
    /\ UNCHANGED dvars

NextBatch ==
    \/ TakeFile
    \/ OpenDocx
    \/ Paragraph
    \/ TableBlockStart
    \/ ProcessTable
    \/ RowEnd
    \/ SkipProcessed
    \/ RowBreak
    \/ ReadCell
    \/ NestedCall
    \/ Return
    \/ Finish
    \/ WriteXml
    \/ Propagate
    \/ LoopEnd

SpecBatch == InitBatch /\ [][NextBatch]_vars

\* ------------------------------------------------------------------------
\* xml_to_md (xml_to_propermd.py)
\* ------------------------------------------------------------------------
\* Children of the XML root a document may hold.
MaxElements == 4

\* docx_to_custom_xml and the folder loop have not been called.
TableStageIdle ==
    /\ tables = Document(<<>>)
    /\ before = tables
    /\ pc = "idle"
    /\ err = ""
    /\ stack = <<>>
    /\ processed_cells = <<>>
    /\ root = <<>>
    /\ files = <<>>
    /\ fi = 0
    /\ bi = 0
    /\ bpc = "idle"
    /\ outcome = <<>>

\* A child of the XML root: its tag and get_element_text(element), the text
\* of the element and its descendants, stripped.
Element(tag, text) == [tag |-> tag, text |-> text]

\* classify_heading(text) of the heading texts the inputs use (lines
\* 101-180); 0 is the fallback.
ClassifyHeading(text) ==
    CASE text = "INSPECTION REPORT" -> 1
      [] text = "PART I" -> 2
      [] text = "Introductory" -> 3
      [] text = "Para 1" -> 4
      [] OTHER -> 0

\* heading_text.startswith(' '): get_element_text returns text.strip(), so
\* no heading text starts with a space.
StartsWithSpace(text) == FALSE

\* convert_table_to_html(element) of a table element without rows.
ConvertTableToHtml == "<table>\n</table>"

ElementKinds ==
    { Element("heading", "PART I"),
      Element("heading", "Introductory"),
      Element("heading", "Para 1"),
      Element("bold", "Other"),
      Element("bold", ""),
      Element("paragraph", "text"),
      Element("paragraph", ""),
      Element("table", "") }

\* Section(heading, level); src is the position in the XML root of the
\* element the section was made for, 0 for root_section.
Section(heading, level, src) ==
    [heading |-> heading, level |-> level, content |-> <<>>,
     children |-> <<>>, src |-> src]

\* An item of a section's content: the string, with the position in the XML
\* root of the element it was made from.
ContentItem(kind, text, src) == [kind |-> kind, text |-> text, src |-> src]

RECURSIVE PopTo(_, _, _)
\* while len(section_stack) > 1 and section_stack[-1].level >= level:
\*     section_stack.pop()
PopTo(secs, stk, level) ==
    IF Len(stk) > 1 /\ secs[stk[Len(stk)]].level >= level
    THEN PopTo(secs, SubSeq(stk, 1, Len(stk) - 1), level)
    ELSE stk

RECURSIVE WriteSection(_, _)
RECURSIVE WriteChildren(_, _)
\* write_section(section, md_lines): the heading line if section.heading is
\* truthy, the items of section.content, then the children (lines 217-223).
WriteSection(secs, n) ==
    (IF secs[n].heading \notin {NoVal, ""}
     THEN << [kind |-> "heading", level |-> secs[n].level,
              text |-> secs[n].heading, src |-> secs[n].src] >>
     ELSE << >>)
    \o secs[n].content
    \o WriteChildren(secs, secs[n].children)

\* for child in ...children: write_section(child, md_lines)
WriteChildren(secs, children) ==
    IF children = << >> THEN << >>
    ELSE WriteSection(secs, Head(children))
         \o WriteChildren(secs, Tail(children))

InitMd ==
    /\ \E n \in 0..MaxElements : xml_root \in [1..n -> ElementKinds]
    /\ ei = 0
    /\ sections = <<>>
    /\ section_stack = <<>>
    /\ first_heading_encountered = FALSE
    /\ md_lines = <<>>
    /\ mpc = "parse"
    /\ TableStageIdle
    /\ JsonIdle

\* tree = ET.parse(xml_path); on ET.ParseError xml_to_md returns (lines
\* 93-99).  Then root_section = Section(None, 0), section_stack =
\* [root_section] (lines 183-185).
ParseXml ==
    /\ mpc = "parse"
    /\ \E parses \in BOOLEAN :
          IF parses
          THEN /\ mpc' = "loop"
               /\ sections' = << Section(NoVal, 0, 0) >>
               /\ section_stack' = << 1 >>
          ELSE /\ mpc' = "parse error"
               /\ UNCHANGED <<sections, section_stack>>
    /\ UNCHANGED <<xml_root, ei, first_heading_encountered, md_lines>>
    /\ UNCHANGED <<xvars, jvars>>

\* element.tag in ('heading', 'bold') (lines 189-204)
HeadingElement ==
    /\ mpc = "loop"
    /\ ei < Len(xml_root)
    /\ xml_root[ei + 1].tag \in {"heading", "bold"}
    /\ LET heading_text == xml_root[ei + 1].text
           first == ~first_heading_encountered
                    /\ ~StartsWithSpace(heading_text)
           level == IF first THEN 1 ELSE ClassifyHeading(heading_text)
           popped == PopTo(sections, section_stack, level)
           parent == popped[Len(popped)]
           new == Len(sections) + 1
       IN /\ first_heading_encountered' = (first_heading_encountered \/ first)
          /\ sections' =
                Append([sections EXCEPT ![parent].children = Append(@, new)],
                       Section(heading_text, level, ei + 1))
          /\ section_stack' = Append(popped, new)
    /\ ei' = ei + 1
    /\ UNCHANGED <<xml_root, md_lines, mpc>>
    /\ UNCHANGED <<xvars, jvars>>

\* element.tag == 'paragraph': content that is not empty is added to
\* section_stack[-1] (lines 205-210)
ParagraphElement ==
    /\ mpc = "loop"
    /\ ei < Len(xml_root)
    /\ xml_root[ei + 1].tag = "paragraph"
    /\ LET content == xml_root[ei + 1].text
           last == section_stack[Len(section_stack)]
       IN sections' =
             IF content # ""
             THEN [sections EXCEPT ![last].content =
                      Append(@, ContentItem("paragraph", content, ei + 1))]
             ELSE sections
    /\ ei' = ei + 1
    /\ UNCHANGED <<xml_root, section_stack, first_heading_encountered,
                   md_lines, mpc>>
    /\ UNCHANGED <<xvars, jvars>>

\* element.tag == 'table': the HTML of the table is added to
\* section_stack[-1] (lines 211-214)
TableElement ==
    /\ mpc = "loop"
    /\ ei < Len(xml_root)
    /\ xml_root[ei + 1].tag = "table"
    /\ LET last == section_stack[Len(section_stack)]
       IN sections' =
             [sections EXCEPT ![last].content =
                 Append(@, ContentItem("table", ConvertTableToHtml, ei + 1))]
    /\ ei' = ei + 1
    /\ UNCHANGED <<xml_root, section_stack, first_heading_encountered,
                   md_lines, mpc>>
    /\ UNCHANGED <<xvars, jvars>>

\* md_lines = []; for child in root_section.children: write_section(child,
\* md_lines) (lines 225-227)
WriteSections ==
    /\ mpc = "loop"
    /\ ei = Len(xml_root)
    /\ md_lines' = WriteChildren(sections, sections[1].children)
    /\ mpc' = "write"
    /\ UNCHANGED <<xml_root, ei, sections, section_stack,
                   first_heading_encountered>>
    /\ UNCHANGED <<xvars, jvars>>

\* f.write("".join(md_lines)); a failure is logged (lines 235-241).
WriteMd ==
    /\ mpc = "write"
    /\ \E ok \in BOOLEAN : mpc' = IF ok THEN "written" ELSE "write failed"
    /\ UNCHANGED <<xml_root, ei, sections, section_stack,
                   first_heading_encountered, md_lines>>
    /\ UNCHANGED <<xvars, jvars>>

NextMd ==
    \/ ParseXml
    \/ HeadingElement
    \/ ParagraphElement
    \/ TableElement
    \/ WriteSections
    \/ WriteMd

SpecMd == InitMd /\ [][NextMd]_vars

\* ------------------------------------------------------------------------
\* process_markdown_file (md_json.py)
\* ------------------------------------------------------------------------
\* Lines a Markdown file may hold.
MaxLines == 4

\* A line of the file by what the code asks of it: the heading marker its
\* stripped text starts with ("" if none), line.count('<table>') and
\* line.count('</table>'), '|' in line, whether it is a separator row of a
\* pipe table (the regular expression of line 197), whether it holds a date
\* or the word 'date' (line 118), and whether its stripped text is empty.
Line(prefix, opens, closes, pipe, sep, dated, blank) ==
    [prefix |-> prefix, opens |-> opens, closes |-> closes, pipe |-> pipe,
     sep |-> sep, dated |-> dated, blank |-> blank]

BlankLine == Line("", 0, 0, FALSE, FALSE, FALSE, TRUE)
TitleLineOf == Line("# ", 0, 0, FALSE, FALSE, FALSE, FALSE)
PartLineOf == Line("## ", 0, 0, FALSE, FALSE, FALSE, FALSE)
SectionLineOf == Line("### ", 0, 0, FALSE, FALSE, FALSE, FALSE)
SubSectionLineOf == Line("#### ", 0, 0, FALSE, FALSE, FALSE, FALSE)
TableOpenLine == Line("", 1, 0, FALSE, FALSE, FALSE, FALSE)
TableCloseLine == Line("", 0, 1, FALSE, FALSE, FALSE, FALSE)
PipeRowLine == Line("", 0, 0, TRUE, FALSE, FALSE, FALSE)
PipeSeparatorLine == Line("", 0, 0, TRUE, TRUE, FALSE, FALSE)
TextLine == Line("", 0, 0, FALSE, FALSE, FALSE, FALSE)
DatedTextLine == Line("", 0, 0, FALSE, FALSE, TRUE, FALSE)

LineKinds ==
    { BlankLine, TitleLineOf, PartLineOf, SectionLineOf, SubSectionLineOf,
      TableOpenLine, TableCloseLine, PipeRowLine, PipeSeparatorLine,
      TextLine, DatedTextLine }

\* Positions are those of Python: lines[i] of the code is ls[i + 1] here.
\* heading_line_idx: the first line that starts with '# ', -1 for None
\* (lines 92-107).
HeadingLineIdx(ls) ==
    IF \E n \in 1..Len(ls) : ls[n].prefix = "# "
    THEN (CHOOSE n \in 1..Len(ls) :
             /\ ls[n].prefix = "# "
             /\ \A m \in 1..(n - 1) : ls[m].prefix # "# ") - 1
    ELSE -1

\* audit_date_line_idx: the first non-empty line after the heading line, if
\* it holds a date; -1 for None (lines 111-122).
AuditDateLineIdx(ls) ==
    LET h == HeadingLineIdx(ls)
        after == {n \in 1..Len(ls) : n - 1 > h /\ ~ls[n].blank}
    IN IF h = -1 \/ after = {} THEN -1
       ELSE LET first == CHOOSE n \in after : \A m \in after : n <= m
            IN IF ls[first].dated THEN first - 1 ELSE -1

RECURSIVE HtmlBlockEnd(_, _, _, _)
\* The inner loop of lines 147-154: i when it is left.
HtmlBlockEnd(ls, i, table_open, table_close) ==
    IF ~(i < Len(ls)) THEN i
    ELSE LET open == table_open + ls[i + 1].opens
             close == table_close + ls[i + 1].closes
         IN IF open > 0 /\ open = close THEN i + 1
            ELSE HtmlBlockEnd(ls, i + 1, open, close)

RECURSIVE PipeBlockEnd(_, _)
\* The inner loop of lines 196-199: i when it is left.
PipeBlockEnd(ls, i) ==
    IF i < Len(ls) /\ ls[i + 1].pipe THEN PipeBlockEnd(ls, i + 1) ELSE i

RECURSIVE Kept(_, _, _)
\* The positions i .. j-1 of the lines that are no separator row, in order
\* (lines 197-198).
Kept(ls, i, j) ==
    IF i >= j THEN << >>
    ELSE (IF ls[i + 1].sep THEN << >> ELSE << i >>) \o Kept(ls, i + 1, j)

\* table_item / content_item: its type and the positions of the lines its
\* text is made of.
Item(type, rows) == [type |-> type, rows |-> rows]

Part(title) == [part_title |-> title, sections |-> << >>]
SectionOf(title) ==
    [section_title |-> title, content |-> << >>, sub_sections |-> << >>]
SubSection(title) == [sub_section_title |-> title, content |-> << >>]

\* The three-way choice of lines 157-164 and 203-210: the item goes to the
\* current sub-section, else to the current section, else to the last
\* section of the current part (a 'General' section is made if the part has
\* none); with no current part no branch is taken.
AddTable(ps, item) ==
    IF current_sub_section # 0
    THEN [ps EXCEPT ![current_part].sections[current_section]
                        .sub_sections[current_sub_section].content =
                            Append(@, item)]
    ELSE IF current_section # 0
    THEN [ps EXCEPT ![current_part].sections[current_section].content =
                        Append(@, item)]
    ELSE IF current_part # 0
    THEN LET made == IF ps[current_part].sections = << >>
                     THEN [ps EXCEPT ![current_part].sections =
                                        << SectionOf("General") >>]
                     ELSE ps
             last == Len(made[current_part].sections)
         IN [made EXCEPT ![current_part].sections[last].content =
                            Append(@, item)]
    ELSE ps

InitJson ==
    /\ \E n \in 0..MaxLines : lines \in [1..n -> LineKinds]
    /\ li = 0
    /\ parts = << >>
    /\ current_part = 0
    /\ current_section = 0
    /\ current_sub_section = 0
    /\ items = << >>
    /\ jpc = "loop"
    /\ TableStageIdle
    /\ MdIdle

\* The line at i, stripped, in the main loop (lines 132-133).
AtLine == jpc = "loop" /\ li < Len(lines)
CurrentLine == lines[li + 1]
IsAuditDateLine == AuditDateLineIdx(lines) # -1 /\ li = AuditDateLineIdx(lines)
\* Neither the audit date line nor an empty line nor a line with '<table>'.
PlainLine ==
    /\ AtLine
    /\ ~IsAuditDateLine
    /\ ~CurrentLine.blank
    /\ CurrentLine.opens = 0

\* The audit date line and empty lines are passed over (lines 135-140).
SkipLine ==
    /\ AtLine
    /\ IsAuditDateLine \/ CurrentLine.blank
    /\ li' = li + 1
    /\ UNCHANGED <<lines, parts, current_part, current_section,
                   current_sub_section, items, jpc>>
    /\ UNCHANGED <<xvars, mvars>>

\* if '<table>' in line: the block up to the balancing '</table>' (or the
\* end of the file) is one table item (lines 142-165)
HtmlTable ==
    /\ AtLine
    /\ ~IsAuditDateLine
    /\ ~CurrentLine.blank
    /\ CurrentLine.opens > 0
    /\ LET end == HtmlBlockEnd(lines, li + 1, CurrentLine.opens,
                               CurrentLine.closes)
           table_item == Item("table", [n \in 1..(end - li) |-> li + n - 1])
       IN /\ li' = end
          /\ items' = Append(items, table_item)
          /\ parts' = AddTable(parts, table_item)
    /\ UNCHANGED <<lines, current_part, current_section,
                   current_sub_section, jpc>>
    /\ UNCHANGED <<xvars, mvars>>

\* line.startswith('# '): handled for the metadata, skipped (lines 166-168)
TitleLine ==
    /\ PlainLine
    /\ CurrentLine.prefix = "# "
    /\ li' = li + 1
    /\ UNCHANGED <<lines, parts, current_part, current_section,
                   current_sub_section, items, jpc>>
    /\ UNCHANGED <<xvars, mvars>>

\* line.startswith('## '): a new part (lines 169-174)
PartLine ==
    /\ PlainLine
    /\ CurrentLine.prefix = "## "
    /\ parts' = Append(parts, Part("title"))
    /\ current_part' = Len(parts) + 1
    /\ current_section' = 0
    /\ current_sub_section' = 0
    /\ li' = li + 1
    /\ UNCHANGED <<lines, items, jpc>>
    /\ UNCHANGED <<xvars, mvars>>

\* line.startswith('### '): a new section, in a 'General' part if there is
\* no part (lines 175-182)
SectionLine ==
    /\ PlainLine
    /\ CurrentLine.prefix = "### "
    /\ LET ps == IF current_part = 0 THEN Append(parts, Part("General"))
                 ELSE parts
           part == IF current_part = 0 THEN Len(ps) ELSE current_part
       IN /\ parts' = [ps EXCEPT ![part].sections =
                                    Append(@, SectionOf("title"))]
          /\ current_part' = part
          /\ current_section' = Len(ps[part].sections) + 1
    /\ current_sub_section' = 0
    /\ li' = li + 1
    /\ UNCHANGED <<lines, items, jpc>>
    /\ UNCHANGED <<xvars, mvars>>

\* line.startswith('#### '): a new sub-section, in a 'General' section (of
\* a 'General' part) if there is no current section (lines 183-192)
SubSectionLine ==
    /\ PlainLine
    /\ CurrentLine.prefix = "#### "
    /\ LET ps1 == IF current_section = 0 /\ current_part = 0
                  THEN Append(parts, Part("General")) ELSE parts
           part == IF current_part = 0 THEN Len(ps1) ELSE current_part
           ps2 == IF current_section = 0
                  THEN [ps1 EXCEPT ![part].sections =
                                      Append(@, SectionOf("General"))]
                  ELSE ps1
           section == IF current_section = 0 THEN Len(ps2[part].sections)
                      ELSE current_section
       IN /\ parts' = [ps2 EXCEPT ![part].sections[section].sub_sections =
                                     Append(@, SubSection("title"))]
          /\ current_part' = part
          /\ current_section' = section
          /\ current_sub_section' =
                Len(ps2[part].sections[section].sub_sections) + 1
    /\ li' = li + 1
    /\ UNCHANGED <<lines, items, jpc>>
    /\ UNCHANGED <<xvars, mvars>>

\* '|' in line: the run of lines with '|' is a Markdown table; its rows are
\* the lines that are no separator row, and a table item is built if there
\* is any (lines 193-210)
PipeTable ==
    /\ PlainLine
    /\ CurrentLine.prefix = ""
    /\ CurrentLine.pipe
    /\ LET end == PipeBlockEnd(lines, li)
           table_lines == Kept(lines, li, end)
           table_item == Item("table", table_lines)
       IN /\ li' = end
          /\ IF table_lines # << >>
             THEN /\ items' = Append(items, table_item)
                  /\ parts' = AddTable(parts, table_item)
             ELSE UNCHANGED <<items, parts>>
    /\ UNCHANGED <<lines, current_part, current_section,
                   current_sub_section, jpc>>
    /\ UNCHANGED <<xvars, mvars>>

\* else: a paragraph; with no current part a 'General' part and section
\* are made for it (lines 211-227)
ParagraphLine ==
    /\ PlainLine
    /\ CurrentLine.prefix = ""
    /\ ~CurrentLine.pipe
    /\ LET content_item == Item("paragraph", << li >>)
       IN /\ items' = Append(items, content_item)
          /\ IF current_sub_section # 0 \/ current_section # 0
                \/ current_part # 0
             THEN /\ parts' = AddTable(parts, content_item)
                  /\ UNCHANGED <<current_part, current_section>>
             ELSE /\ parts' =
                        Append(parts,
                               [Part("General") EXCEPT !.sections =
                                   << [SectionOf("General") EXCEPT
                                          !.content = << content_item >>] >>])
                  /\ current_part' = Len(parts) + 1
                  /\ current_section' = 1
    /\ li' = li + 1
    /\ UNCHANGED <<lines, current_sub_section, jpc>>
    /\ UNCHANGED <<xvars, mvars>>

\* while i < len(lines) is false: return json_data (line 228)
ReturnJson ==
    /\ jpc = "loop"
    /\ ~(li < Len(lines))
    /\ jpc' = "returned"
    /\ UNCHANGED <<lines, li, parts, current_part, current_section,
                   current_sub_section, items>>
    /\ UNCHANGED <<xvars, mvars>>

NextJson ==
    \/ SkipLine
    \/ HtmlTable
    \/ TitleLine
    \/ PartLine
    \/ SectionLine
    \/ SubSectionLine
    \/ PipeTable
    \/ ParagraphLine
    \/ ReturnJson

SpecJson == InitJson /\ [][NextJson]_vars

\* ------------------------------------------------------------------------
\* Properties
\* ------------------------------------------------------------------------
\* The resolutions at hand: each live invocation with the table it works
\* on, and each finished pass over the top-level table.
Resolutions ==
    {[table |-> tables[stack[d].table], rows |-> stack[d].table_el]
        : d \in 1..Depth}
    \cup {[table |-> tables[TopTable], rows |-> root[i].rows]
        : i \in {n \in 1..Len(root) : bpc = "single"}}

\* Where the emitted cells of a table element sit: row and place in the row.
Places(rows) ==
    UNION {{<<i, j>> : j \in 1..Len(rows[i])} : i \in 1..Len(rows)}

\* The rectangle [r, r+rowspan) x [c, c+colspan) of an emitted cell.
Rect(e) ==
    {<<i, j>> : i \in e.r..(e.r + e.rowspan - 1),
                j \in e.c..(e.c + e.colspan - 1)}

\* The coordinates of the grid: 0 <= r < rowCount, 0 <= c < len(row r).
Grid(tbl) ==
    UNION {{<<i - 1, j - 1>> : j \in 1..Len(tbl[i])} : i \in 1..Len(tbl)}

\* The span count of a cell's horizontal-merge directive, 1 when it has none.
HorizontalSpan(cell) ==
    IF cell.gridSpan \in DOMAIN IntLiterals THEN IntLiterals[cell.gridSpan]
    ELSE 1

\* Is the cell at (i, c) a vertical-merge continuation?
ContinuesAt(tbl, i, c) ==
    /\ i < Len(tbl)
    /\ c < Len(tbl[i + 1])
    /\ tbl[i + 1][c + 1].vMerge = NoVal

\* The number k of consecutive rows r+1, r+2, ... whose cell at column c is
\* a continuation.
RunLength(tbl, r, c) ==
    CHOOSE k \in 0..Len(tbl) :
        /\ \A i \in 1..k : ContinuesAt(tbl, r + i, c)
        /\ ~ContinuesAt(tbl, r + k + 1, c)

\* C1: once a table is resolved, every coordinate of its grid lies in the
\* rectangle of exactly one emitted cell (no gap, no overlap).
C1_SpansTile ==
    (pc = "done") =>
        \A res \in Resolutions : \A x \in Grid(res.table) :
            Cardinality({p \in Places(res.rows) :
                            x \in Rect(res.rows[p[1]][p[2]])}) = 1

\* C2: an emitted cell whose raw cell starts a vertical merge has rowspan
\* k+1, k the number of consecutive continuation cells below it in its
\* column, and its rows stay inside the table; any other emitted cell has
\* rowspan 1.
C2_RowspanIsRunLength ==
    \A res \in Resolutions : \A p \in Places(res.rows) :
        LET e == res.rows[p[1]][p[2]]
            cell == res.table[e.r + 1][e.c + 1]
        IN IF cell.vMerge = "restart"
           THEN /\ e.rowspan = RunLength(res.table, e.r, e.c) + 1
                /\ e.r + e.rowspan <= Len(res.table)
           ELSE e.rowspan = 1

\* C2 witness: a finished pass emitted a start cell with one continuation
\* below it, the run ended by a cell that is no continuation.
C2_Witness ==
    /\ pc = "done"
    /\ \E res \in Resolutions : \E p \in Places(res.rows) :
          LET e == res.rows[p[1]][p[2]]
          IN /\ res.table[e.r + 1][e.c + 1].vMerge = "restart"
             /\ e.rowspan = 2
             /\ e.r + 2 < Len(res.table)
             /\ e.c < Len(res.table[e.r + 3])

C4_NeverRaisesOnShape ==
    (\A id \in DOMAIN tables : \A i \in 1..Len(tables[id]) :
        \A j \in 1..Len(tables[id][i]) :
            tables[id][i][j].gridSpan \in DOMAIN IntLiterals \cup {Absent})
    => pc # "raised"

\* C5: a missing or malformed merge directive never raises: the cell is
\* emitted as a cell without that merge.
C5_MalformedDirectiveIsNoMerge ==
    (pc = "raised") => err = MaxOfNothing

\* C6: when the folder loop has stopped, every .docx file of the folder
\* has been handled: a failure in one file does not keep the later files
\* from being processed.
C6_EveryDocxHandled ==
    (bpc \in {"finished", "aborted"}) =>
        \A i \in 1..Len(files) : files[i].docx => outcome[i] # "none"

\* C7: an emitted cell whose raw cell is a vertical-merge continuation has
\* rowspan 1 and the colspan of its own horizontal directive.
C7_ContinuationIsFreshCell ==
    \A res \in Resolutions : \A p \in Places(res.rows) :
        LET e == res.rows[p[1]][p[2]]
            cell == res.table[e.r + 1][e.c + 1]
        IN (cell.vMerge = NoVal) =>
              e.rowspan = 1 /\ e.colspan = HorizontalSpan(cell)

\* C7 witness: a continuation cell with another continuation right below
\* it was emitted by a finished pass.
C7_Witness ==
    /\ pc = "done"
    /\ \E res \in Resolutions : \E p \in Places(res.rows) :
          LET e == res.rows[p[1]][p[2]]
          IN /\ res.table[e.r + 1][e.c + 1].vMerge = NoVal
             /\ ContinuesAt(res.table, e.r + 1, e.c)

\* The position and spans of the emitted cells, without their nested tables.
SpansOf(rows) ==
    [i \in 1..Len(rows) |->
        [j \in 1..Len(rows[i]) |->
            <<rows[i][j].r, rows[i][j].c, rows[i][j].rowspan,
              rows[i][j].colspan>>]]

\* A step of or into a nested invocation leaves the invocation at depth d
\* as it is: its processed_cells set, its row, the spans of the cells it
\* emitted and, until it is the running invocation again, its column.
ParentUntouched(d) ==
    /\ d <= Len(processed_cells')
    /\ processed_cells'[d] = processed_cells[d]
    /\ stack'[d].r = stack[d].r
    /\ stack'[d].colspan = stack[d].colspan
    /\ SpansOf(stack'[d].table_el) = SpansOf(stack[d].table_el)
    /\ (d < Len(stack')) => stack'[d].c = stack[d].c

\* A finished pass attached to each cell element the resolutions of the
\* cell's nested tables, one per nested table, in the order of cell.tables.
NestedAttachedInOrder ==
    (pc = "done" /\ bpc = "single") =>
        \A i \in 1..Len(root) : \A p \in Places(root[i].rows) :
            LET e == root[i].rows[p[1]][p[2]]
                cell == tables[TopTable][e.r + 1][e.c + 1]
            IN /\ Len(e.tables) = Len(cell.tables)
               /\ \A k \in 1..Len(e.tables) :
                     Len(e.tables[k]) = Len(tables[cell.tables[k]])

\* C8: while a nested table is resolved, and when its resolution starts or
\* returns, the processed_cells set, the scan position and the emitted
\* spans of every enclosing invocation stay as they are; the nested tables
\* end up attached to their cell in encounter order.
C8_NestedIndependent ==
    /\ [][\A d \in 1..Depth :
            (d < Depth \/ Len(stack') > Depth) => ParentUntouched(d)]_vars
    /\ []NestedAttachedInOrder

\* C8 witness: a nested invocation has marked a coordinate that its parent
\* has not marked.
C8_Witness ==
    /\ Depth = 2
    /\ \E x \in processed_cells[2] : x \notin processed_cells[1]

\* C9: every pass over the same table yields the same table element.
C9_RerunIdentical ==
    \A i \in 1..Len(root) : (bpc = "single") => root[i] = root[1]

\* C9 witness: a second pass has finished on a table that the first pass
\* changed and in which it found a vertical run.
C9_Witness ==
    /\ pc = "done"
    /\ Len(root) = 2
    /\ tables # before
    /\ \E p \in Places(root[2].rows) : root[2].rows[p[1]][p[2]].rowspan = 2

\* C10: process_table leaves every raw cell of its input as it was.
C10_InputUnchanged == tables = before

\* The table elements of the nested tables that returned into the cells of
\* the given rows, each with the nested table it resolves.
NestedOutputs(tbl, rows) ==
    UNION {LET e == rows[p[1]][p[2]]
               cell == CellAt(tbl, e.r, e.c)
           IN {[table |-> tables[cell.tables[k]], rows |-> e.tables[k]]
                  : k \in 1..Len(e.tables)}
           : p \in Places(rows)}

\* What process_table returned so far: the table element of each finished
\* pass over the top-level table and of each nested table that returned.
Returned ==
    {[table |-> tables[TopTable], rows |-> root[i].rows]
        : i \in {n \in 1..Len(root) : bpc = "single"}}
    \cup UNION {NestedOutputs(res.table, res.rows) : res \in Resolutions}

C12_ScanTerminates ==
    \A d \in 1..Depth :
        (stack[d].loc = "scan" /\ stack[d].c < stack[d].n_cols) =>
            <<stack[d].c, processed_cells[d]>> \notin stack[d].seen

\* C13: every coordinate (i, j) in the processed_cells set of an invocation
\* lies inside the grid of its table, 0 <= i < len(table.rows) and
\* 0 <= j < n_cols: no emitted span reaches past the last row or the last
\* column.
C13_MarkedInsideGrid ==
    \A d \in 1..Depth : \A x \in processed_cells[d] :
        /\ 0 <= x[1] /\ x[1] < RowCount(tables[stack[d].table])
        /\ 0 <= x[2] /\ x[2] < stack[d].n_cols

\* Is the element a table, or a paragraph whose text is not empty?
IsContent(e) == e.tag = "table" \/ (e.tag = "paragraph" /\ e.text # "")

\* C14: the Markdown that xml_to_md wrote holds every table and every
\* non-empty paragraph of the XML root exactly once, and what it holds
\* (headings, paragraphs, tables) is in the order of the XML root.
C14_EveryItemWrittenOnce ==
    (mpc = "written") =>
        /\ \A n \in 1..Len(xml_root) :
              IsContent(xml_root[n]) =>
                  Cardinality({k \in 1..Len(md_lines) :
                                  md_lines[k].src = n}) = 1
        /\ \A k \in 1..Len(md_lines) : \A m \in 1..(k - 1) :
              md_lines[m].src < md_lines[k].src

\* The places of the JSON tree where the item is: <<p, s, 0, k>> for the
\* k-th item of section s of part p, <<p, s, u, k>> for the k-th item of
\* its sub-section u.
Holders(item) ==
    UNION {UNION {
        {<<p, s, 0, k>> : k \in {n \in 1..Len(parts[p].sections[s].content) :
                                   parts[p].sections[s].content[n] = item}}
        \cup UNION {
            {<<p, s, u, k>> :
                k \in {n \in 1..Len(parts[p].sections[s].sub_sections[u]
                                       .content) :
                          parts[p].sections[s].sub_sections[u].content[n]
                              = item}}
            : u \in 1..Len(parts[p].sections[s].sub_sections)}
        : s \in 1..Len(parts[p].sections)} : p \in 1..Len(parts)}

\* C15: every table item and every paragraph item that the main loop of
\* process_markdown_file built is in the content list of exactly one section
\* or sub-section of the returned tree, whatever headings came before it.
C15_EveryItemInOneSection ==
    (jpc = "returned") =>
        \A n \in 1..Len(items) : Cardinality(Holders(items[n])) = 1

====
